---- MODULE Spec2Model ----
(***************************************************************************)
(* Model of the stigmergic board of src/src/stigmergic_coordination.py:    *)
(* the Signal record and StigmergicBoard (deposit_signal, read_signals,    *)
(* decay_signals, get_board_state, _save_signals), called by the agents    *)
(* in any order.                                                           *)
(*                                                                         *)
(* Specifications.  Spec: each call is one step, as its body runs inside   *)
(* `with self.lock:`, on a storage that can be written.  SpecLoad: the     *)
(* board is constructed over a signals.json found in storage_path.         *)
(* SpecLock (SpecLockFair with fairness): two threads step through the     *)
(* calls, StigmergicAgent's included, and the file write may fail.         *)
(* SpecAgent: StigmergicAgent.select_approach and execute_and_report over  *)
(* the board of Spec, the random draw being any value of random.uniform.   *)
(* SpecExec: DurableExecution of src/src/durable_execution.py, its         *)
(* records passing through JSON on every save and load.                    *)
(*                                                                         *)
(* Numbers.  Python floats are modelled in fixed point:                    *)
(*   success_metric  in thousandths   (0.7   is 700)                       *)
(*   strength        in hundredths    (100.0 is 10000, 1.0 is 100)         *)
(* so success_metric * 100.0 is metric * 10 strength units, exactly, and   *)
(* the products with 1.5, 0.7 and 0.3 are taken in tenths, rounded down.   *)
(* Time is a clock of ticks; one tick is decay_rate * ln(DecayBase)        *)
(* seconds, so that exp(-age / decay_rate) is 1 / DecayBase^age.           *)
(* deposit_signal takes any float: Metrics holds a negative value, the     *)
(* threshold 0.7, a value in (0.7, 1] and a value above 1.                 *)
(***************************************************************************)
EXTENDS Integers, Sequences, FiniteSets, TLC

\* ---------------------------------------------------------------- bounds
MaxTime == 2
MaxDeposits == 2
MaxReports == 3
MaxCheckpoints == 2

\* ------------------------------------------------------ program constants
Cap == 10000
Floor == 100
ConsensusThreshold == 700
AmplificationFactor == 15
AttenuationFactor == 7
OldWeight == 7
NewWeight == 3
DecayBase == 10

\* ------------------------------------------------------------ input sets
Tasks == {"T1", "T2"}
Approaches == {"X", "Y"}
Agents == {"a1", "a2"}
Metrics == {-500, 700, 800, 1500}
\* the deposit_signal calls made: every call on task T1, two on task T2
Deposits ==
    {[task_id |-> "T1", approach |-> a, success_metric |-> m, agent_id |-> g] :
        a \in Approaches, m \in Metrics, g \in Agents}
    \cup
    {[task_id |-> "T2", approach |-> "X", success_metric |-> m, agent_id |-> "a1"] :
        m \in {700, 800}}

None == "none"

VARIABLES
    signals,    \* self.signals
    now,        \* time.time()
    disk,       \* the file signals.json
    call,       \* the latest call of a board operation and its arguments
    ret,        \* what that call returned
    log,        \* the line that call printed
    prev,       \* self.signals and the clock when that call began
    ndeposits,  \* deposit_signal calls made so far
    lock,       \* self.lock: the thread holding it, or None
    pc,         \* where each thread is in its call
    frame,      \* the call each thread is in: operation, arguments, locals
    lastwrite,  \* how the latest _save_signals ended
    serial,     \* the map had the calls run one after the other, whole,
                \* in the order they got the lock
    current_execution,  \* DurableExecution.current_execution
    execution_state,    \* DurableExecution.execution_state
    executions,         \* the files <execution_id>.json of storage_path
    driver              \* where the workflow using the executor is

vars == <<signals, now, disk, call, ret, log, prev, ndeposits,
          lock, pc, frame, lastwrite, serial,
          current_execution, execution_state, executions, driver>>

\* the variables of the DurableExecution object and its caller
durable == <<current_execution, execution_state, executions, driver>>

\* the variables of the board that a DurableExecution call leaves alone
board == <<signals, now, disk, log, prev, ndeposits, lock, pc, frame,
           lastwrite, serial>>

\* the threads calling the board: one per agent
Threads == Agents

\* ----------------------------------------------------------- arithmetic
RECURSIVE Pow(_, _)
Pow(b, n) == IF n = 0 THEN 1 ELSE b * Pow(b, n - 1)

\* faulty variant: the bound is not applied
MinUnbounded(a, b) == a

Min(a, b) == IF a <= b THEN a ELSE b

\* ------------------------------------------------------ the Signal record
\* Signal.age(): time.time() - self.timestamp
Age(sig, t) == t - sig.timestamp

\* Signal.decayed_strength(decay_rate): strength * exp(-age / decay_rate)
DecayedStrength(sig, t) == sig.strength \div Pow(DecayBase, Age(sig, t))

\* ------------------------------ self.signals: a dict in insertion order,
\* a sequence of entries [task_id, sigs] with distinct task_id
HasKey(d, task) == \E i \in 1..Len(d) : d[i].task_id = task

KeyIndex(d, task) == CHOOSE i \in 1..Len(d) : d[i].task_id = task

Get(d, task) == IF HasKey(d, task) THEN d[KeyIndex(d, task)].sigs ELSE <<>>

\* defaultdict(list).__getitem__: a missing key is inserted with []
Touch(d, task) ==
    IF HasKey(d, task) THEN d ELSE Append(d, [task_id |-> task, sigs |-> <<>>])

SetKey(d, task, sigs) ==
    [i \in 1..Len(d) |-> IF d[i].task_id = task
                         THEN [task_id |-> task, sigs |-> sigs] ELSE d[i]]

\* ------------------------------------------------------- deposit_signal
InitialStrength(metric) == metric * 10

\* faulty variant: the search loop misses the first element of the list
FindExistingSkipFirst(sigs, approach) ==
    IF \E i \in 2..Len(sigs) : sigs[i].approach = approach
    THEN CHOOSE i \in 2..Len(sigs) :
            /\ sigs[i].approach = approach
            /\ \A j \in 2..(i - 1) : sigs[j].approach # approach
    ELSE 0

\* the search loop: index of the first signal with this approach, 0 if none
FindExisting(sigs, approach) ==
    IF \E i \in 1..Len(sigs) : sigs[i].approach = approach
    THEN CHOOSE i \in 1..Len(sigs) :
            /\ sigs[i].approach = approach
            /\ \A j \in 1..(i - 1) : sigs[j].approach # approach
    ELSE 0

\* faulty variant: only a strong metric reinforces; the depositor is not looked at
ReinforcesByMetricOnly(sig, metric, agent) ==
    metric > ConsensusThreshold

Reinforces(sig, metric, agent) ==
    sig.deposited_by = agent \/ metric > ConsensusThreshold

Amplified(current, metric) ==
    current + (InitialStrength(metric) * AmplificationFactor) \div 10

Attenuated(current) == (current * AttenuationFactor) \div 10

NewStrength(sig, metric, agent, t) ==
    IF Reinforces(sig, metric, agent)
    THEN Amplified(DecayedStrength(sig, t), metric)
    ELSE Attenuated(DecayedStrength(sig, t))

\* faulty variant: the smoothing weights are exchanged
SmoothedSwapped(old, metric) == (old * NewWeight + metric * OldWeight) \div 10

Smoothed(old, metric) == (old * OldWeight + metric * NewWeight) \div 10

\* faulty variant: the update also records the depositing agent
UpdatedSignalTakesOwner(sig, metric, agent, t) ==
    [sig EXCEPT !.strength = Min(NewStrength(sig, metric, agent, t), Cap),
                !.timestamp = t,
                !.deposited_by = agent,
                !.success_metric = Smoothed(sig.success_metric, metric)]

UpdatedSignal(sig, metric, agent, t) ==
    [sig EXCEPT !.strength = Min(NewStrength(sig, metric, agent, t), Cap),
                !.timestamp = t,
                !.success_metric = Smoothed(sig.success_metric, metric)]

\* faulty variant: the new signal's strength is the metric itself, not metric * 100
NewSignalUnscaled(task, approach, metric, agent, t) ==
    [task_id |-> task, approach |-> approach,
     strength |-> metric \div 10, timestamp |-> t,
     deposited_by |-> agent, success_metric |-> metric]

NewSignal(task, approach, metric, agent, t) ==
    [task_id |-> task, approach |-> approach,
     strength |-> InitialStrength(metric), timestamp |-> t,
     deposited_by |-> agent, success_metric |-> metric]

DepositedList(sigs, task, approach, metric, agent, t) ==
    LET i == FindExisting(sigs, approach) IN
    IF i # 0
    THEN [sigs EXCEPT ![i] = UpdatedSignal(sigs[i], metric, agent, t)]
    ELSE Append(sigs, NewSignal(task, approach, metric, agent, t))

DepositSignal(d, task, approach, metric, agent, t) ==
    SetKey(Touch(d, task), task,
           DepositedList(Get(d, task), task, approach, metric, agent, t))

\* the line deposit_signal prints
DepositLog(d, task, approach, metric, agent, t) ==
    LET sigs == Get(d, task)
        i == FindExisting(sigs, approach) IN
    IF i = 0
    THEN [kind |-> "new", approach |-> approach, current |-> 0,
          strength |-> InitialStrength(metric)]
    ELSE [kind |-> IF Reinforces(sigs[i], metric, agent)
                   THEN "amplifying" ELSE "attenuating",
          approach |-> approach,
          current |-> DecayedStrength(sigs[i], t),
          strength |-> NewStrength(sigs[i], metric, agent, t)]

\* --------------------------------------------------------- read_signals
ReadEntry(sig, agent, t) ==
    [approach |-> sig.approach, strength |-> DecayedStrength(sig, t),
     success_metric |-> sig.success_metric, age_hours |-> Age(sig, t),
     from_self |-> (sig.deposited_by = agent)]

\* faulty variant: the filter keeps a signal that is exactly at the floor
RECURSIVE LiveEntriesAtFloor(_, _, _)
LiveEntriesAtFloor(sigs, agent, t) ==
    IF sigs = <<>> THEN <<>>
    ELSE LET rest == LiveEntriesAtFloor(Tail(sigs), agent, t) IN
         IF DecayedStrength(Head(sigs), t) >= Floor
         THEN <<ReadEntry(Head(sigs), agent, t)>> \o rest
         ELSE rest

\* the loop that appends an entry for every signal above the floor
RECURSIVE LiveEntries(_, _, _)
LiveEntries(sigs, agent, t) ==
    IF sigs = <<>> THEN <<>>
    ELSE LET rest == LiveEntries(Tail(sigs), agent, t) IN
         IF DecayedStrength(Head(sigs), t) > Floor
         THEN <<ReadEntry(Head(sigs), agent, t)>> \o rest
         ELSE rest

\* faulty variant: an unstable sort: an equal key goes in front
RECURSIVE InsertDescUnstable(_, _)
InsertDescUnstable(sorted, e) ==
    IF sorted = <<>> THEN <<e>>
    ELSE IF Head(sorted).strength > e.strength
         THEN <<Head(sorted)>> \o InsertDescUnstable(Tail(sorted), e)
         ELSE <<e>> \o sorted

\* list.sort(key=strength, reverse=True): stable, equal keys keep their order
RECURSIVE InsertDesc(_, _)
InsertDesc(sorted, e) ==
    IF sorted = <<>> THEN <<e>>
    ELSE IF Head(sorted).strength >= e.strength
         THEN <<Head(sorted)>> \o InsertDesc(Tail(sorted), e)
         ELSE <<e>> \o sorted

RECURSIVE SortDesc(_)
SortDesc(s) ==
    IF s = <<>> THEN <<>>
    ELSE InsertDesc(SortDesc(SubSeq(s, 1, Len(s) - 1)), s[Len(s)])

\* faulty variant: no membership test, so the defaultdict inserts the key
AfterReadUnguarded(d, task) == Touch(d, task)

\* self.signals after read_signals: `task_id not in self.signals` returns
\* before self.signals[task_id] is evaluated
AfterRead(d, task) == IF ~HasKey(d, task) THEN d ELSE Touch(d, task)

\* strongest_signal: the approach of the first entry, or None
Strongest(entries) == IF entries # <<>> THEN entries[1].approach ELSE None

ReadSignals(d, task, agent, t) ==
    IF ~HasKey(d, task) THEN <<>>
    ELSE SortDesc(LiveEntries(Get(d, task), agent, t))

\* -------------------------------------------------------- decay_signals
\* faulty variant: the sweep stores the decayed strength, timestamp kept
RECURSIVE LiveSignalsStoringDecay(_, _)
LiveSignalsStoringDecay(sigs, t) ==
    IF sigs = <<>> THEN <<>>
    ELSE LET rest == LiveSignalsStoringDecay(Tail(sigs), t) IN
         IF DecayedStrength(Head(sigs), t) > Floor
         THEN <<[Head(sigs) EXCEPT !.strength = DecayedStrength(Head(sigs), t)]>>
              \o rest
         ELSE rest

\* faulty variant: the sweep removes by age, whatever the strength
RECURSIVE LiveSignalsByAge(_, _)
LiveSignalsByAge(sigs, t) ==
    IF sigs = <<>> THEN <<>>
    ELSE LET rest == LiveSignalsByAge(Tail(sigs), t) IN
         IF Age(Head(sigs), t) < 1
         THEN <<Head(sigs)>> \o rest
         ELSE rest

RECURSIVE LiveSignals(_, _)
LiveSignals(sigs, t) ==
    IF sigs = <<>> THEN <<>>
    ELSE LET rest == LiveSignals(Tail(sigs), t) IN
         IF DecayedStrength(Head(sigs), t) > Floor
         THEN <<Head(sigs)>> \o rest
         ELSE rest

\* faulty variant: a key left with an empty list is not deleted
RECURSIVE DecaySignalsKeepingKeys(_, _)
DecaySignalsKeepingKeys(d, t) ==
    IF d = <<>> THEN <<>>
    ELSE <<[task_id |-> Head(d).task_id, sigs |-> LiveSignals(Head(d).sigs, t)]>>
         \o DecaySignalsKeepingKeys(Tail(d), t)

\* every list is filtered, and a key left with an empty list is deleted
RECURSIVE DecaySignals(_, _)
DecaySignals(d, t) ==
    IF d = <<>> THEN <<>>
    ELSE LET kept == LiveSignals(Head(d).sigs, t)
             rest == DecaySignals(Tail(d), t) IN
         IF kept = <<>> THEN rest
         ELSE <<[task_id |-> Head(d).task_id, sigs |-> kept]>> \o rest

\* ------------------------------------------------------ get_board_state
RECURSIVE SumLen(_)
SumLen(d) == IF d = <<>> THEN 0 ELSE Len(Head(d).sigs) + SumLen(Tail(d))

BoardEntry(sig, t) ==
    [approach |-> sig.approach, strength |-> DecayedStrength(sig, t),
     age_hours |-> Age(sig, t)]

BoardState(d, t) ==
    [total_tasks |-> Len(d),
     total_signals |-> SumLen(d),
     tasks |-> [i \in 1..Len(d) |->
                  [task_id |-> d[i].task_id,
                   sigs |-> [j \in 1..Len(d[i].sigs) |->
                               BoardEntry(d[i].sigs[j], t)]]]]

\* -------------------------------------------------------- _save_signals
\* signals.json is a JSON document: an object is a sequence of members
\* [key, value] in the order written, a list is a sequence.
FieldNames ==
    <<"task_id", "approach", "strength", "timestamp", "deposited_by",
      "success_metric">>

\* dataclasses.asdict(sig): one member per field, in field order
AsDict(sig) == [i \in 1..Len(FieldNames) |->
                  [key |-> FieldNames[i], value |-> sig[FieldNames[i]]]]

\* json.dump of {task_id: [asdict(sig) ...]}
Serialized(d) ==
    [i \in 1..Len(d) |->
        [key |-> d[i].task_id,
         value |-> [j \in 1..Len(d[i].sigs) |-> AsDict(d[i].sigs[j])]]]

\* the file after a completed json.dump
JsonFile(doc) == [state |-> "json", doc |-> doc]

\* no signals.json in storage_path
NoFile == [state |-> "missing", doc |-> <<>>]

\* a signals.json that json.load cannot parse
Unparseable == [state |-> "unparseable", doc |-> <<>>]

\* faulty variant: the file is opened for appending
SaveFileAppending(file, doc) ==
    IF file.state = "missing" THEN JsonFile(doc) ELSE Unparseable

\* open(filepath, 'w') and json.dump: whatever the file held is replaced
SaveFile(file, doc) == JsonFile(doc)

\* -------------------------------------------------------- _load_signals

Keys(obj) == {obj[i].key : i \in 1..Len(obj)}

Member(obj, k) == obj[CHOOSE i \in 1..Len(obj) : obj[i].key = k].value

\* Signal(**sig_data) raises TypeError on a missing or an unexpected keyword
Accepted(obj) ==
    /\ Keys(obj) = {FieldNames[i] : i \in 1..Len(FieldNames)}
    /\ Len(obj) = Len(FieldNames)

\* faulty variant: the loaded signal's timestamp is reset
FromDictResetTimestamp(obj) ==
    [task_id |-> Member(obj, "task_id"), approach |-> Member(obj, "approach"),
     strength |-> Member(obj, "strength"), timestamp |-> 0,
     deposited_by |-> Member(obj, "deposited_by"),
     success_metric |-> Member(obj, "success_metric")]

\* Signal(**sig_data)
FromDict(obj) ==
    [task_id |-> Member(obj, "task_id"), approach |-> Member(obj, "approach"),
     strength |-> Member(obj, "strength"),
     timestamp |-> Member(obj, "timestamp"),
     deposited_by |-> Member(obj, "deposited_by"),
     success_metric |-> Member(obj, "success_metric")]

\* the loop over data.items(): a task's list is assigned once every record
\* of it has been built; the first record that raises ends the whole loop
\* (the try block encloses it), keeping the tasks assigned before
RECURSIVE LoadItems(_)
LoadItems(doc) ==
    IF doc = <<>> THEN <<>>
    ELSE LET item == Head(doc) IN
         IF \A j \in 1..Len(item.value) : Accepted(item.value[j])
         THEN <<[task_id |-> item.key,
                 sigs |-> [j \in 1..Len(item.value) |-> FromDict(item.value[j])]]>>
              \o LoadItems(Tail(doc))
         ELSE <<>>

\* _load_signals on an empty self.signals: nothing when the file does not
\* exist, nothing when json.load raises
LoadSignals(file) ==
    IF file.state # "json" THEN <<>> ELSE LoadItems(file.doc)

\* faulty variant: only the record errors are caught, not json.load's
LoadRaisesOnBadJson(file) == file.state = "unparseable"

\* whether _load_signals raises: a missing file returns early and
\* `except Exception` catches every error of the open, the parse and the loop
LoadRaises(file) == FALSE

\* ------------------------------------------------- DurableExecution
\* src/src/durable_execution.py: an executor keeps the id of its current
\* execution and writes one JSON file per execution.
ExecutionIds == {"e1", ""}

\* the values a checkpoint state holds: a str, and a tuple, which json.dump
\* writes as an array
StrValue == [type |-> "str", items |-> <<"test">>]

TupleValue == [type |-> "tuple", items |-> <<"a", "b">>]

\* a dict is a sequence of members [key, value]
DictOf(v) == <<[key |-> "data", value |-> v]>>

\* the checkpoint calls made: phase, state, completed_steps, pending_steps
CheckpointCalls ==
    {[phase |-> "phase1", state |-> DictOf(StrValue),
      completed_steps |-> <<"step1">>, pending_steps |-> <<"step2">>],
     [phase |-> "phase2", state |-> DictOf(TupleValue),
      completed_steps |-> <<"step1", "step2">>, pending_steps |-> <<>>]}

Workflow == "workflow"

Result == DictOf(StrValue)

\* a key the record does not have (yet)
Absent == -1

\* what json.load gives back for what json.dump wrote: a tuple is a list
JsonValue(v) == IF v.type = "tuple" THEN [v EXCEPT !.type = "list"] ELSE v

JsonDict(d) ==
    [i \in 1..Len(d) |-> [key |-> d[i].key, value |-> JsonValue(d[i].value)]]

JsonCheckpoint(c) == [c EXCEPT !.state = JsonDict(c.state)]

JsonRecord(r) ==
    [r EXCEPT !.state = JsonDict(r.state),
              !.result = JsonDict(r.result),
              !.checkpoints = [i \in 1..Len(r.checkpoints) |->
                                  JsonCheckpoint(r.checkpoints[i])]]

\* no file <execution_id>.json
NoRecord == [exists |-> FALSE]

\* _load_execution: None when the file does not exist
LoadExecution(files, id) == files[id]

\* _save_execution: open(filepath, 'w') and json.dump
SaveExecution(files, r) == [files EXCEPT ![r.execution_id] = JsonRecord(r)]

\* `not x` on an Optional[str], and on what _load_execution returned
Falsy(x) == x \in {None, ""}

NotLoaded(r) == r = NoRecord

\* _generate_checkpoint_id: a digest of id, phase and time
CheckpointId(id, phase, t) == <<"ckpt", id, phase, t>>

EmptyState == [exists |-> FALSE]

DurableInit ==
    /\ current_execution = None
    /\ execution_state = EmptyState
    /\ executions = [id \in ExecutionIds |-> NoRecord]
    /\ driver = [at |-> "idle", id |-> None]

\* ------------------------------------------------------------ the board
\* Every operation runs wholly inside `with self.lock:`, so each call is one
\* step: the body, then _save_signals for the two mutating operations.  The
\* calls of the agents' threads interleave in any order.
NoCall == [op |-> "none"]

NoLog == [kind |-> None]

NoPrev == [signals |-> <<>>, at |-> 0, disk |-> NoFile]

NoFrame == [op |-> None, inner |-> None, task_id |-> None, approach |-> None,
            success_metric |-> 0, outcome |-> None, result |-> <<>>]

\* self.lock = threading.Lock(), and no thread is in a call
ThreadsInit ==
    /\ lock = None
    /\ pc = [t \in Threads |-> "idle"]
    /\ frame = [t \in Threads |-> NoFrame]
    /\ lastwrite = None

Init ==
    /\ signals = <<>>
    /\ now = 0
    /\ disk = NoFile
    /\ call = NoCall
    /\ ret = None
    /\ log = NoLog
    /\ prev = NoPrev
    /\ ndeposits = 0
    /\ ThreadsInit
    /\ serial = <<>>
    /\ DurableInit

\* the caller of a call that only returned a value has that value: the
\* record of the call is dropped before the next call is made
Returned == call.op \in {"read", "strongest", "board", "load", "select"}

Return ==
    /\ Returned
    /\ call' = NoCall
    /\ ret' = None
    /\ log' = NoLog
    /\ prev' = NoPrev
    /\ UNCHANGED <<signals, now, disk, ndeposits, lock, pc, frame, lastwrite,
                   serial>>
    /\ UNCHANGED durable

\* time passes between calls; the record of the latest call is dropped
Tick ==
    /\ ~Returned
    /\ now < MaxTime
    /\ now' = now + 1
    /\ call' = NoCall
    /\ ret' = None
    /\ log' = NoLog
    /\ prev' = NoPrev
    /\ UNCHANGED <<signals, disk, ndeposits, lock, pc, frame, lastwrite, serial>>
    /\ UNCHANGED durable

deposit_signal(task, approach, metric, agent) ==
    /\ ~Returned
    /\ ndeposits < MaxDeposits
    /\ ndeposits' = ndeposits + 1
    /\ signals' = DepositSignal(signals, task, approach, metric, agent, now)
    /\ log' = DepositLog(signals, task, approach, metric, agent, now)
    /\ disk' = SaveFile(disk, Serialized(signals'))
    /\ call' = [op |-> "deposit", task_id |-> task, approach |-> approach,
                success_metric |-> metric, agent_id |-> agent]
    /\ ret' = None
    /\ prev' = [signals |-> signals, at |-> now, disk |-> disk]
    /\ lastwrite' = "ok"
    /\ serial' = signals'
    /\ UNCHANGED <<now, lock, pc, frame>>
    /\ UNCHANGED durable

read_signals(task, agent) ==
    /\ ~Returned
    /\ ret' = ReadSignals(signals, task, agent, now)
    /\ signals' = AfterRead(signals, task)
    /\ call' = [op |-> "read", task_id |-> task, agent_id |-> agent]
    /\ log' = NoLog
    /\ prev' = [signals |-> signals, at |-> now, disk |-> disk]
    /\ serial' = signals'
    /\ UNCHANGED <<now, disk, ndeposits, lock, pc, frame, lastwrite>>
    /\ UNCHANGED durable

strongest_signal(task) ==
    /\ ~Returned
    /\ ret' = Strongest(ReadSignals(signals, task, "system", now))
    /\ signals' = AfterRead(signals, task)
    /\ call' = [op |-> "strongest", task_id |-> task]
    /\ log' = NoLog
    /\ prev' = [signals |-> signals, at |-> now, disk |-> disk]
    /\ serial' = signals'
    /\ UNCHANGED <<now, disk, ndeposits, lock, pc, frame, lastwrite>>
    /\ UNCHANGED durable

decay_signals ==
    /\ ~Returned
    /\ signals' = DecaySignals(signals, now)
    /\ disk' = SaveFile(disk, Serialized(signals'))
    /\ call' = [op |-> "decay", again |-> (call.op = "decay")]
    /\ ret' = None
    /\ log' = NoLog
    /\ prev' = [signals |-> signals, at |-> now, disk |-> disk]
    /\ lastwrite' = "ok"
    /\ serial' = signals'
    /\ UNCHANGED <<now, ndeposits, lock, pc, frame>>
    /\ UNCHANGED durable

\* the process starts again: StigmergicBoard.__init__ over the same
\* storage_path, _load_signals into an empty map
load_signals ==
    /\ ~Returned
    /\ signals' = LoadSignals(disk)
    /\ call' = [op |-> "load", raised |-> LoadRaises(disk)]
    /\ ret' = None
    /\ log' = NoLog
    /\ prev' = [signals |-> signals, at |-> now, disk |-> disk]
    /\ serial' = signals'
    /\ UNCHANGED <<now, disk, ndeposits, lock, pc, frame, lastwrite>>
    /\ UNCHANGED durable

get_board_state ==
    /\ ~Returned
    /\ ret' = BoardState(signals, now)
    /\ call' = [op |-> "board"]
    /\ log' = NoLog
    /\ prev' = [signals |-> signals, at |-> now, disk |-> disk]
    /\ UNCHANGED <<signals, now, disk, ndeposits, lock, pc, frame, lastwrite,
                   serial>>
    /\ UNCHANGED durable

Next ==
    \/ Tick
    \/ Return
    \/ \E c \in Deposits :
          deposit_signal(c.task_id, c.approach, c.success_metric, c.agent_id)
    \/ \E task \in Tasks, agent \in Agents : read_signals(task, agent)
    \/ \E task \in Tasks : strongest_signal(task)
    \/ decay_signals
    \/ get_board_state
    \/ load_signals

Spec == Init /\ [][Next]_vars

\* ------------------------------------------- a board over a found file
\* SpecLoad: the board is constructed over a signals.json found in
\* storage_path, and then used.  The found files are no file, an
\* unparseable one, and documents of well-formed and malformed records.
GoodRecord(task, approach) == AsDict(NewSignal(task, approach, 800, "a1", 0))

\* a record written without the timestamp field
RecordMissingField(task, approach) ==
    SelectSeq(GoodRecord(task, approach), LAMBDA m : m.key # "timestamp")

\* a record with a field Signal does not have
RecordExtraField(task, approach) ==
    Append(GoodRecord(task, approach), [key |-> "version", value |-> 1])

FoundLists(task) ==
    IF task = "T1"
    THEN {<<GoodRecord(task, "X")>>, <<RecordMissingField(task, "X")>>,
          <<GoodRecord(task, "X"), GoodRecord(task, "Y")>>,
          <<RecordMissingField(task, "X"), GoodRecord(task, "Y")>>,
          <<GoodRecord(task, "X"), RecordExtraField(task, "Y")>>}
    ELSE {<<GoodRecord(task, "X")>>, <<RecordExtraField(task, "X")>>}

FoundItems(task) == {[key |-> task, value |-> l] : l \in FoundLists(task)}

FoundFiles ==
    {NoFile, Unparseable, JsonFile(<<>>)}
    \cup {JsonFile(<<i>>) : i \in FoundItems("T1") \cup FoundItems("T2")}
    \cup {JsonFile(<<i, j>>) : i \in FoundItems("T1"), j \in FoundItems("T2")}
    \cup {JsonFile(<<j, i>>) : i \in FoundItems("T1"), j \in FoundItems("T2")}

\* the deposit_signal calls made on the constructed board
LoadDeposits ==
    {[task_id |-> "T1", approach |-> "X", success_metric |-> 700, agent_id |-> "a2"],
     [task_id |-> "T2", approach |-> "Y", success_metric |-> 800, agent_id |-> "a1"]}

InitLoad ==
    \E file \in FoundFiles :
        /\ disk = file
        /\ signals = LoadSignals(file)
        /\ call = [op |-> "load", raised |-> LoadRaises(file)]
        /\ prev = [signals |-> <<>>, at |-> 0, disk |-> file]
        /\ now = 0
        /\ ret = None
        /\ log = NoLog
        /\ ndeposits = 0
        /\ ThreadsInit
        /\ serial = LoadSignals(file)
        /\ DurableInit

NextLoad ==
    \/ Tick
    \/ Return
    \/ \E c \in LoadDeposits :
          deposit_signal(c.task_id, c.approach, c.success_metric, c.agent_id)
    \/ \E task \in Tasks, agent \in Agents : read_signals(task, agent)
    \/ decay_signals
    \/ load_signals

SpecLoad == InitLoad /\ [][NextLoad]_vars

\* ------------------------------------------------- the threads' steps
\* SpecLock: the same operations step by step.  A thread waits at
\* `with self.lock:`, acquires, runs the body, writes the file in the two
\* mutating operations, and releases at the end of the with statement,
\* also when an exception leaves it.  open() or json.dump may fail.
DefaultApproaches == {"approach_A", "approach_B", "approach_C"}

\* random.uniform(0.5, 0.95)
ExecuteMetrics == {800}

\* the calls of the two threads: thread a1 calls the board's methods,
\* thread a2 is a StigmergicAgent selecting and reporting
BoardCalls ==
    {[op |-> "deposit", task_id |-> "T1", approach |-> "approach_A",
      success_metric |-> 700],
     [op |-> "read", task_id |-> "T1", approach |-> None, success_metric |-> 0],
     [op |-> "strongest", task_id |-> "T1", approach |-> None, success_metric |-> 0],
     [op |-> "decay", task_id |-> None, approach |-> None, success_metric |-> 0],
     [op |-> "board", task_id |-> None, approach |-> None, success_metric |-> 0]}

AgentCalls ==
    {[op |-> "select", task_id |-> "T1", approach |-> None, success_metric |-> 0],
     [op |-> "execute", task_id |-> "T1", approach |-> None, success_metric |-> 0]}

LockCalls(t) == IF t = "a1" THEN BoardCalls ELSE AgentCalls

\* the first board operation a call enters: strongest_signal,
\* select_approach and execute_and_report begin with read_signals
FirstInner(op) ==
    IF op \in {"strongest", "select", "execute"} THEN "read" ELSE op

InsideLocs == {"body", "stamp", "smooth", "save", "release"}

Inside(t) == pc[t] \in InsideLocs

\* the agent_id a thread passes: strongest_signal reads as "system"
AgentOf(t) == IF frame[t].op = "strongest" THEN "system" ELSE t

Call(t, c) ==
    /\ pc[t] = "idle"
    /\ c.op \in {"deposit", "execute"} => ndeposits < MaxDeposits
    /\ ndeposits' = IF c.op \in {"deposit", "execute"}
                    THEN ndeposits + 1 ELSE ndeposits
    /\ frame' = [frame EXCEPT ![t] =
                    [op |-> c.op, inner |-> FirstInner(c.op),
                     task_id |-> c.task_id, approach |-> c.approach,
                     success_metric |-> c.success_metric,
                     outcome |-> None, result |-> <<>>]]
    /\ pc' = [pc EXCEPT ![t] = "acquire"]
    /\ UNCHANGED <<signals, now, disk, call, ret, log, prev, serial, lock, lastwrite>>
    /\ UNCHANGED durable

\* faulty variant: the lock is not looked at
CanAcquireAlways(l) == TRUE

\* threading.Lock.acquire: blocks until the lock is free, whoever holds it
CanAcquire(l) == l = None

\* the whole effect on the map of the operation a thread is entering
SerialAfter(d, t) ==
    LET f == frame[t] IN
    CASE f.inner = "deposit" ->
            DepositSignal(d, f.task_id, f.approach, f.success_metric, t, now)
      [] f.inner = "decay" -> DecaySignals(d, now)
      [] f.inner = "read" -> AfterRead(d, f.task_id)
      [] OTHER -> d

Acquire(t) ==
    /\ pc[t] = "acquire"
    /\ CanAcquire(lock)
    /\ lock' = t
    /\ pc' = [pc EXCEPT ![t] = "body"]
    /\ serial' = SerialAfter(serial, t)
    /\ UNCHANGED <<signals, now, disk, call, ret, log, prev, ndeposits,
                   frame, lastwrite>>
    /\ UNCHANGED durable

\* deposit_signal up to the first write: the search, then either the new
\* Signal appended or existing_signal.strength assigned
DepositBody(t) ==
    /\ pc[t] = "body"
    /\ frame[t].inner = "deposit"
    /\ LET f == frame[t]
           sigs == Get(signals, f.task_id)
           i == FindExisting(sigs, f.approach) IN
       IF i = 0
       THEN /\ signals' = DepositSignal(signals, f.task_id, f.approach,
                                        f.success_metric, t, now)
            /\ pc' = [pc EXCEPT ![t] = "save"]
       ELSE /\ signals' = SetKey(signals, f.task_id,
                    [sigs EXCEPT ![i].strength =
                        UpdatedSignal(sigs[i], f.success_metric, t, now).strength])
            /\ pc' = [pc EXCEPT ![t] = "stamp"]
    /\ UNCHANGED <<now, disk, call, ret, log, prev, serial, ndeposits, lock, frame,
                   lastwrite>>
    /\ UNCHANGED durable

\* existing_signal.timestamp = time.time()
WriteTimestamp(t) ==
    /\ pc[t] = "stamp"
    /\ LET f == frame[t]
           sigs == Get(signals, f.task_id)
           i == FindExisting(sigs, f.approach) IN
       signals' = SetKey(signals, f.task_id, [sigs EXCEPT ![i].timestamp = now])
    /\ pc' = [pc EXCEPT ![t] = "smooth"]
    /\ UNCHANGED <<now, disk, call, ret, log, prev, serial, ndeposits, lock, frame,
                   lastwrite>>
    /\ UNCHANGED durable

\* existing_signal.success_metric = existing_signal.success_metric * 0.7 + ...
WriteSuccessMetric(t) ==
    /\ pc[t] = "smooth"
    /\ LET f == frame[t]
           sigs == Get(signals, f.task_id)
           i == FindExisting(sigs, f.approach) IN
       signals' = SetKey(signals, f.task_id,
                    [sigs EXCEPT ![i].success_metric =
                        Smoothed(sigs[i].success_metric, f.success_metric)])
    /\ pc' = [pc EXCEPT ![t] = "save"]
    /\ UNCHANGED <<now, disk, call, ret, log, prev, serial, ndeposits, lock, frame,
                   lastwrite>>
    /\ UNCHANGED durable

\* the approaches of the entries read_signals returns, strongest first
ResultApproaches(entries) == [i \in 1..Len(entries) |-> entries[i].approach]

\* what the caller keeps of the list returned: select_approach walks it,
\* the other callers hand it on
KeptResult(op, entries) ==
    IF op \in {"select", "execute"} THEN ResultApproaches(entries) ELSE <<>>

ReadBody(t) ==
    /\ pc[t] = "body"
    /\ frame[t].inner = "read"
    /\ frame' = [frame EXCEPT
                    ![t].result = KeptResult(frame[t].op,
                        ReadSignals(signals, frame[t].task_id, AgentOf(t), now)),
                    ![t].outcome = "return"]
    /\ signals' = AfterRead(signals, frame[t].task_id)
    /\ pc' = [pc EXCEPT ![t] = "release"]
    /\ UNCHANGED <<now, disk, call, ret, log, prev, serial, ndeposits, lock, lastwrite>>
    /\ UNCHANGED durable

DecayBody(t) ==
    /\ pc[t] = "body"
    /\ frame[t].inner = "decay"
    /\ signals' = DecaySignals(signals, now)
    /\ pc' = [pc EXCEPT ![t] = "save"]
    /\ UNCHANGED <<now, disk, call, ret, log, prev, serial, ndeposits, lock, frame,
                   lastwrite>>
    /\ UNCHANGED durable

BoardBody(t) ==
    /\ pc[t] = "body"
    /\ frame[t].inner = "board"
    /\ frame' = [frame EXCEPT ![t].outcome = "return"]
    /\ pc' = [pc EXCEPT ![t] = "release"]
    /\ UNCHANGED <<signals, now, disk, call, ret, log, prev, serial, ndeposits, lock,
                   lastwrite>>
    /\ UNCHANGED durable

\* how _save_signals can end: written, open() raising with the file as it
\* was, json.dump raising with the file truncated and partly written
WriteEnds == {"ok", "open fails", "dump fails"}

FileAfter(end, file, doc) ==
    CASE end = "ok" -> SaveFile(file, doc)
      [] end = "open fails" -> file
      [] end = "dump fails" -> Unparseable

\* _save_signals has no exception handler, nor have its two callers
SaveOutcome(end) == IF end = "ok" THEN "return" ELSE "raise"

SaveSignals(t) ==
    /\ pc[t] = "save"
    /\ \E end \in WriteEnds :
          /\ disk' = FileAfter(end, disk, Serialized(signals))
          /\ lastwrite' = end
          /\ frame' = [frame EXCEPT ![t].outcome = SaveOutcome(end)]
    /\ pc' = [pc EXCEPT ![t] = "release"]
    /\ UNCHANGED <<signals, now, call, ret, log, prev, serial, ndeposits, lock>>
    /\ UNCHANGED durable

\* faulty variant: release() is a plain statement after the body, which an
\* exception skips
LockAfterExitNoFinally(holder, outcome) ==
    IF outcome = "raise" THEN holder ELSE None

\* the end of `with self.lock:`: released on return and on exception
LockAfterExit(holder, outcome) == None

\* the with statement is left.  An exception goes up through the callers,
\* none of which catches it, and ends the call; a return of read_signals
\* to strongest_signal or select_approach goes on in the caller.
Release(t) ==
    /\ pc[t] = "release"
    /\ lock' = LockAfterExit(lock, frame[t].outcome)
    /\ IF frame[t].outcome = "return" /\ frame[t].inner = "read"
                                      /\ frame[t].op # "read"
       THEN /\ pc' = [pc EXCEPT ![t] = "caller"]
            /\ UNCHANGED frame
       ELSE /\ pc' = [pc EXCEPT ![t] = "idle"]
            /\ frame' = [frame EXCEPT ![t] = NoFrame]
    /\ UNCHANGED <<signals, now, disk, call, ret, log, prev, serial, ndeposits,
                   lastwrite>>
    /\ UNCHANGED durable

\* strongest_signal after read_signals returned
StrongestReturn(t) ==
    /\ pc[t] = "caller"
    /\ frame[t].op = "strongest"
    /\ pc' = [pc EXCEPT ![t] = "idle"]
    /\ frame' = [frame EXCEPT ![t] = NoFrame]
    /\ UNCHANGED <<signals, now, disk, call, ret, log, prev, serial, ndeposits, lock,
                   lastwrite>>
    /\ UNCHANGED durable

\* what select_approach can return: one of the defaults when nothing was
\* read, else the approach of any entry read (each has a positive weight)
Choices(result) ==
    IF result = <<>> THEN DefaultApproaches
    ELSE {result[i] : i \in 1..Len(result)}

\* select_approach after read_signals returned, and for execute_and_report
\* the statements up to the call of deposit_signal
SelectApproach(t) ==
    /\ pc[t] = "caller"
    /\ frame[t].op \in {"select", "execute"}
    /\ \E a \in Choices(frame[t].result) :
          IF frame[t].op = "select"
          THEN /\ pc' = [pc EXCEPT ![t] = "idle"]
               /\ frame' = [frame EXCEPT ![t] = NoFrame]
          ELSE /\ pc' = [pc EXCEPT ![t] = "acquire"]
               /\ \E m \in ExecuteMetrics :
                     frame' = [frame EXCEPT ![t].inner = "deposit",
                                            ![t].approach = a,
                                            ![t].success_metric = m,
                                            ![t].outcome = None,
                                            ![t].result = <<>>]
    /\ UNCHANGED <<signals, now, disk, call, ret, log, prev, serial, ndeposits, lock,
                   lastwrite>>
    /\ UNCHANGED durable

\* the steps of a thread that is in a call and not waiting for the lock
Run(t) ==
    \/ DepositBody(t)
    \/ WriteTimestamp(t)
    \/ WriteSuccessMetric(t)
    \/ ReadBody(t)
    \/ DecayBody(t)
    \/ BoardBody(t)
    \/ SaveSignals(t)
    \/ Release(t)
    \/ StrongestReturn(t)
    \/ SelectApproach(t)

NextLock ==
    \/ \E t \in Threads : \E c \in LockCalls(t) : Call(t, c)
    \/ \E t \in Threads : Acquire(t)
    \/ \E t \in Threads : Run(t)

SpecLock == Init /\ [][NextLock]_vars

\* fair scheduling: a thread that can take a step takes one, and a thread
\* waiting for the lock gets it if it is free again and again
SpecLockFair ==
    /\ SpecLock
    /\ \A t \in Threads : WF_vars(Run(t)) /\ SF_vars(Acquire(t))

\* ------------------------------------------------- the agent's calls
\* SpecAgent: StigmergicAgent.select_approach and execute_and_report,
\* called one at a time on a board that also gets deposits and sweeps.

\* sum(s['strength'] for s in signals)
RECURSIVE TotalStrength(_)
TotalStrength(entries) ==
    IF entries = <<>> THEN 0
    ELSE Head(entries).strength + TotalStrength(Tail(entries))

\* cumulative after the first i entries of the walk
Cumulative(entries, i) == TotalStrength(SubSeq(entries, 1, i))

\* by how much the draw can exceed the sum the walk accumulates: the
\* rounding of total_strength against that of the repeated +=
Rounding == 1

\* random.uniform(0, total_strength): the ends, every cumulative sum and
\* the value just above it, and a draw the walk does not reach
Draws(entries) ==
    {r \in {0} \cup UNION {{Cumulative(entries, i), Cumulative(entries, i) + 1} :
                              i \in 1..Len(entries)} :
        r <= TotalStrength(entries)}
    \cup {TotalStrength(entries) + Rounding}

\* faulty variant: the comparison is strict
WalkIndexStrict(entries, r) ==
    IF \E i \in 1..Len(entries) : r < Cumulative(entries, i)
    THEN CHOOSE i \in 1..Len(entries) :
            /\ r < Cumulative(entries, i)
            /\ \A j \in 1..(i - 1) : ~(r < Cumulative(entries, j))
    ELSE 0

\* the walk: the first index at which rand <= cumulative, 0 if there is none
WalkIndex(entries, r) ==
    IF \E i \in 1..Len(entries) : r <= Cumulative(entries, i)
    THEN CHOOSE i \in 1..Len(entries) :
            /\ r <= Cumulative(entries, i)
            /\ \A j \in 1..(i - 1) : ~(r <= Cumulative(entries, j))
    ELSE 0

\* the loop's return, and `return signals[0]['approach']` after the loop,
\* which on an empty list is an IndexError
WalkResult(entries, r) ==
    IF WalkIndex(entries, r) # 0
    THEN entries[WalkIndex(entries, r)].approach
    ELSE IF entries # <<>> THEN entries[1].approach ELSE "IndexError"

\* faulty variant: the defaults are used only when the task is unknown
UsesDefaultOnlyUnknown(d, task, entries) == ~HasKey(d, task)

\* `if not signals:` on the list read_signals returned
UsesDefault(d, task, entries) == entries = <<>>

\* select_approach: default is the outcome of random.choice, r of
\* random.uniform
SelectResult(d, task, entries, default, r) ==
    IF UsesDefault(d, task, entries) THEN default ELSE WalkResult(entries, r)

\* the draws select_approach makes on a list: (default, r), only the one
\* used being drawn
Picks(entries) ==
    IF entries = <<>>
    THEN {[default |-> a, r |-> -1] : a \in DefaultApproaches}
    ELSE {[default |-> None, r |-> r] : r \in Draws(entries)}

select_approach(task, agent) ==
    /\ ~Returned
    /\ LET entries == ReadSignals(signals, task, agent, now) IN
       \E k \in Picks(entries) :
          /\ ret' = SelectResult(signals, task, entries, k.default, k.r)
          /\ call' = [op |-> "select", task_id |-> task, agent_id |-> agent,
                      entries |-> entries, default |-> k.default, draw |-> k.r]
    /\ signals' = AfterRead(signals, task)
    /\ serial' = signals'
    /\ log' = NoLog
    /\ prev' = [signals |-> signals, at |-> now, disk |-> disk]
    /\ UNCHANGED <<now, disk, ndeposits, lock, pc, frame, lastwrite>>
    /\ UNCHANGED durable

\* faulty variant: the approach reported is the strongest one on the board
ReportedApproachStrongest(entries, selected) ==
    IF entries # <<>> THEN entries[1].approach ELSE selected

\* execute_and_report deposits for the approach select_approach returned
ReportedApproach(entries, selected) == selected

\* ndeposits counts the deposits made through execute_and_report too
execute_and_report(task, agent) ==
    /\ ~Returned
    /\ ndeposits < MaxReports
    /\ ndeposits' = ndeposits + 1
    /\ LET entries == ReadSignals(signals, task, agent, now) IN
       \E k \in Picks(entries), m \in ExecuteMetrics :
          LET selected == SelectResult(signals, task, entries, k.default, k.r)
              approach == ReportedApproach(entries, selected)
              d == AfterRead(signals, task) IN
          /\ signals' = DepositSignal(d, task, approach, m, agent, now)
          /\ log' = DepositLog(d, task, approach, m, agent, now)
          /\ ret' = <<selected, m>>
          /\ call' = [op |-> "execute", task_id |-> task, agent_id |-> agent,
                      entries |-> entries, default |-> k.default, draw |-> k.r,
                      success_metric |-> m]
    /\ disk' = SaveFile(disk, Serialized(signals'))
    /\ lastwrite' = "ok"
    /\ serial' = signals'
    /\ prev' = [signals |-> signals, at |-> now, disk |-> disk]
    /\ UNCHANGED <<now, lock, pc, frame>>
    /\ UNCHANGED durable

\* the deposit_signal calls made besides the agents' own
AgentDeposits ==
    {[task_id |-> "T1", approach |-> "approach_A", success_metric |-> 800,
      agent_id |-> "a1"],
     [task_id |-> "T1", approach |-> "X", success_metric |-> 700,
      agent_id |-> "a2"]}

NextAgent ==
    \/ Tick
    \/ Return
    \/ \E c \in AgentDeposits :
          deposit_signal(c.task_id, c.approach, c.success_metric, c.agent_id)
    \/ \E agent \in Agents : select_approach("T1", agent)
    \/ \E agent \in Agents : execute_and_report("T1", agent)
    \/ decay_signals
    \/ get_board_state

SpecAgent == Init /\ [][NextAgent]_vars

\* -------------------------------------- the calls on DurableExecution
\* SpecExec: a workflow starts an execution, checkpoints, may crash and
\* resume, completes or fails, and asks for the status; after the end it
\* may call again or start anew.  driver.at is where the workflow is:
\* "unresumed" after a resume_execution that raised, "abandoned" after a
\* complete_execution that raised.
start_execution(id) ==
    /\ driver.at \in {"idle", "ended", "abandoned", "failed"}
    /\ LET r == [exists |-> TRUE, execution_id |-> id, workflow |-> Workflow,
                 status |-> "running", start_time |-> now,
                 checkpoints |-> <<>>, completed_steps |-> <<>>,
                 state |-> <<>>, end_time |-> Absent, result |-> <<>>,
                 duration |-> Absent, error |-> None] IN
       /\ current_execution' = id
       /\ executions' = SaveExecution(executions, r)
       /\ execution_state' = r
    /\ call' = [op |-> "start", execution_id |-> id, raised |-> None]
    /\ ret' = id
    /\ driver' = [at |-> "running", id |-> id]
    /\ UNCHANGED board

checkpoint(c) ==
    /\ driver.at \in {"running", "resumed", "ended"}
    /\ IF Falsy(current_execution)
       THEN /\ call' = [op |-> "checkpoint", execution_id |-> driver.id,
                        raised |-> "ValueError", after |-> driver.at]
            /\ ret' = None
            /\ UNCHANGED <<current_execution, execution_state, executions>>
       ELSE LET old == LoadExecution(executions, current_execution)
                ckpt == [checkpoint_id |->
                            CheckpointId(current_execution, c.phase, now),
                         execution_id |-> current_execution,
                         timestamp |-> now, phase |-> c.phase,
                         state |-> c.state,
                         completed_steps |-> c.completed_steps,
                         pending_steps |-> c.pending_steps,
                         metadata |-> <<>>]
                r == [old EXCEPT !.checkpoints = Append(old.checkpoints, ckpt),
                                 !.completed_steps = c.completed_steps,
                                 !.state = c.state] IN
            /\ Len(old.checkpoints) < MaxCheckpoints
            /\ executions' = SaveExecution(executions, r)
            /\ execution_state' = r
            /\ call' = [op |-> "checkpoint", execution_id |-> driver.id,
                        raised |-> None, after |-> driver.at]
            /\ ret' = ckpt.checkpoint_id
            /\ UNCHANGED current_execution
    /\ UNCHANGED <<driver, board>>

\* the simulated crash of the test: executor.current_execution = None
crash ==
    /\ driver.at = "running"
    /\ current_execution' = None
    /\ driver' = [driver EXCEPT !.at = "crashed"]
    /\ call' = [op |-> "crash", execution_id |-> driver.id, raised |-> None]
    /\ ret' = None
    /\ UNCHANGED <<execution_state, executions, board>>

\* faulty variant: the first checkpoint is taken for the latest
LatestCheckpointFirst(r) == r.checkpoints[1]

\* execution_record["checkpoints"][-1]
LatestCheckpoint(r) == r.checkpoints[Len(r.checkpoints)]

resume_execution(id) ==
    /\ driver.at = "crashed"
    /\ id = driver.id
    /\ LET old == LoadExecution(executions, id) IN
       IF NotLoaded(old) \/ old.checkpoints = <<>>
       THEN /\ call' = [op |-> "resume", execution_id |-> id,
                        raised |-> "ValueError", was |-> execution_state]
            /\ ret' = None
            /\ UNCHANGED <<current_execution, execution_state, executions>>
       ELSE LET r == [old EXCEPT !.status = "running"]
                latest == LatestCheckpoint(old) IN
            /\ current_execution' = id
            /\ execution_state' = r
            /\ executions' = SaveExecution(executions, r)
            /\ call' = [op |-> "resume", execution_id |-> id,
                        raised |-> None, was |-> execution_state]
            /\ ret' = [execution_id |-> id, phase |-> latest.phase,
                       state |-> latest.state,
                       completed_steps |-> latest.completed_steps,
                       pending_steps |-> latest.pending_steps]
    /\ driver' = [driver EXCEPT !.at = IF call'.raised = None
                                       THEN "resumed" ELSE "unresumed"]
    /\ UNCHANGED board

\* self.current_execution = None at the end of complete_execution and of
\* fail_execution
CurrentAfterEnd(current) == None

complete_execution(result) ==
    /\ driver.at \in {"running", "resumed", "unresumed", "ended"}
    /\ IF Falsy(current_execution)
       THEN /\ call' = [op |-> "complete", execution_id |-> driver.id,
                        raised |-> "ValueError", after |-> driver.at]
            /\ UNCHANGED <<current_execution, execution_state, executions>>
       ELSE LET old == LoadExecution(executions, current_execution)
                r == [old EXCEPT !.status = "completed",
                                 !.end_time = now,
                                 !.result = result,
                                 !.duration = now - old.start_time] IN
            /\ executions' = SaveExecution(executions, r)
            /\ current_execution' = CurrentAfterEnd(current_execution)
            /\ execution_state' = EmptyState
            /\ call' = [op |-> "complete", execution_id |-> driver.id,
                        raised |-> None, after |-> driver.at]
    /\ ret' = None
    /\ driver' = [driver EXCEPT !.at = IF call'.raised = None \/ driver.at = "ended"
                                       THEN "ended" ELSE "abandoned"]
    /\ UNCHANGED board

fail_execution(error) ==
    /\ driver.at \in {"running", "resumed"}
    /\ IF Falsy(current_execution)
       THEN /\ call' = [op |-> "fail", execution_id |-> driver.id,
                        raised |-> "ValueError", after |-> driver.at]
            /\ UNCHANGED <<current_execution, execution_state, executions>>
       ELSE LET old == LoadExecution(executions, current_execution)
                r == [old EXCEPT !.status = "failed",
                                 !.end_time = now,
                                 !.error = error] IN
            /\ executions' = SaveExecution(executions, r)
            /\ current_execution' = CurrentAfterEnd(current_execution)
            /\ execution_state' = EmptyState
            /\ call' = [op |-> "fail", execution_id |-> driver.id,
                        raised |-> None, after |-> driver.at]
    /\ ret' = None
    /\ driver' = [driver EXCEPT !.at = "failed"]
    /\ UNCHANGED board

get_execution_status(id) ==
    /\ driver.at # "idle"
    /\ id = driver.id
    /\ LET r == LoadExecution(executions, id) IN
       ret' = IF NotLoaded(r) THEN [status |-> "not_found"]
              ELSE [execution_id |-> id, status |-> r.status,
                    checkpoints |-> Len(r.checkpoints),
                    completed_steps |-> Len(r.completed_steps),
                    duration |-> r.duration]
    /\ call' = [op |-> "status", execution_id |-> id, raised |-> None,
                after |-> driver.at]
    /\ UNCHANGED <<durable, board>>

NextExec ==
    \/ \E id \in ExecutionIds : start_execution(id)
    \/ \E c \in CheckpointCalls : checkpoint(c)
    \/ crash
    \/ \E id \in ExecutionIds : resume_execution(id)
    \/ complete_execution(Result)
    \/ fail_execution("error")
    \/ \E id \in ExecutionIds : get_execution_status(id)

SpecExec == Init /\ [][NextExec]_vars

\* =============================================================== claims
\* what the claims speak of: the record of a (task_id, approach) pair
Stored(d, task) == Get(d, task)

HasRecord(d, task, approach) ==
    \E j \in 1..Len(Stored(d, task)) : Stored(d, task)[j].approach = approach

RecordOf(d, task, approach) ==
    Stored(d, task)[CHOOSE j \in 1..Len(Stored(d, task)) :
                        Stored(d, task)[j].approach = approach]

AllRecords(d) ==
    UNION {{d[i].sigs[j] : j \in 1..Len(d[i].sigs)} : i \in 1..Len(d)}

Deposited == call.op = "deposit"

Created == Deposited /\ ~HasRecord(prev.signals, call.task_id, call.approach)

Updated == Deposited /\ HasRecord(prev.signals, call.task_id, call.approach)

OldRecord == RecordOf(prev.signals, call.task_id, call.approach)

NewRecord == RecordOf(signals, call.task_id, call.approach)

\* the decayed strength of the record when the deposit began
Current == OldRecord.strength \div Pow(DecayBase, prev.at - OldRecord.timestamp)

\* C1: no task_id entry of the signal map holds two Signal records with the
\* same approach, whatever calls the agents have made in whatever order.
C1_UniqueApproach ==
    \A i \in 1..Len(signals) :
        \A j, k \in 1..Len(signals[i].sigs) :
            j # k => signals[i].sigs[j].approach # signals[i].sigs[k].approach

\* a second deposit on the same pair has run and left one record
C1_Witness ==
    /\ Updated
    /\ Len(Stored(signals, call.task_id)) = 1
    /\ call.agent_id # NewRecord.deposited_by

\* C2: a deposit on a pair with no stored record appends exactly one Signal
\* with strength = success_metric * 100, the given success_metric, the
\* depositing agent and the time of the call, and changes no other Signal.
C2_CreateAddsOne ==
    Created =>
        LET before == Stored(prev.signals, call.task_id)
            after == Stored(signals, call.task_id) IN
        /\ Len(after) = Len(before) + 1
        /\ after[Len(after)] =
              [task_id |-> call.task_id, approach |-> call.approach,
               strength |-> call.success_metric * 10,
               timestamp |-> prev.at,
               deposited_by |-> call.agent_id,
               success_metric |-> call.success_metric]
        /\ \A j \in 1..Len(before) : after[j] = before[j]
        /\ \A task \in Tasks \ {call.task_id} :
              Stored(signals, task) = Stored(prev.signals, task)

\* a create beside a record that was already stored
C2_Witness ==
    /\ Created
    /\ Len(Stored(signals, call.task_id)) = 2
    /\ prev.at > 0

C4_OwnerNeverDecreases ==
    (Updated /\ OldRecord.deposited_by = call.agent_id) =>
        NewRecord.strength \div Pow(DecayBase, prev.at - NewRecord.timestamp)
            >= Current

\* C5: a deposit on an existing Signal by another agent with
\* success_metric <= 0.7 leaves a decayed strength, read at once, that is
\* not above the decayed strength just before the deposit.
C5_OtherNeverIncreases ==
    (Updated /\ OldRecord.deposited_by # call.agent_id
             /\ call.success_metric <= 700) =>
        NewRecord.strength \div Pow(DecayBase, prev.at - NewRecord.timestamp)
            <= Current

\* C6: every deposit on an existing Signal, amplifying or attenuating, stores
\* success_metric = 0.7 * old + 0.3 * given and resets timestamp to the time
\* of the deposit.
C6_SmoothingAndTimestamp ==
    Updated =>
        /\ NewRecord.success_metric =
              (7 * OldRecord.success_metric + 3 * call.success_metric) \div 10
        /\ NewRecord.timestamp = prev.at

\* an attenuating deposit, later than the record's timestamp, with another
\* metric than the stored one
C6_Witness ==
    /\ Updated
    /\ log.kind = "attenuating"
    /\ prev.at > OldRecord.timestamp
    /\ call.success_metric # OldRecord.success_metric

\* C7: every stored Signal's success_metric lies in [0, 1], whatever
\* success_metric arguments deposit_signal was called with.
C7_MetricInUnitInterval ==
    \A r \in AllRecords(signals) :
        r.success_metric >= 0 /\ r.success_metric <= 1000

\* C8 as claimed: after any deposit by agent X, creating, amplifying or
\* attenuating, the Signal's deposited_by is X (the latest modifier).
C8_Original ==
    Deposited => NewRecord.deposited_by = call.agent_id

\* C8 as amended: a deposit that creates the Signal sets deposited_by to the
\* depositing agent and a deposit on an existing Signal leaves deposited_by
\* as it was, so deposited_by names the agent that created the Signal and
\* from_self in read_signals is true exactly for the reader equal to it.
C8_DepositedByCreator ==
    /\ Created => NewRecord.deposited_by = call.agent_id
    /\ Updated => NewRecord.deposited_by = OldRecord.deposited_by
    /\ call.op = "read" =>
          \A i \in 1..Len(ret) :
              ret[i].from_self =
                 (RecordOf(signals, call.task_id, ret[i].approach).deposited_by
                     = call.agent_id)

\* another agent than the creator has deposited on the Signal
C8_Witness ==
    /\ Updated
    /\ call.agent_id # OldRecord.deposited_by
    /\ NewRecord.deposited_by = OldRecord.deposited_by

Read == call.op = "read"

\* the decayed strength of a stored record at the time of the read
AtRead(sig) == sig.strength \div Pow(DecayBase, prev.at - sig.timestamp)

\* the position of an approach in the task's stored list (creation order)
Position(approach) ==
    CHOOSE j \in 1..Len(Stored(signals, call.task_id)) :
        Stored(signals, call.task_id)[j].approach = approach

\* C9: every entry read_signals returns has a decayed strength, at call
\* time, strictly above 1.0, and every stored Signal of the task whose
\* decayed strength is above 1.0 is in the result exactly once.
C9_ReadAboveFloor ==
    Read =>
        LET sigs == Stored(signals, call.task_id) IN
        /\ \A i \in 1..Len(ret) :
              /\ ret[i].strength > 100
              /\ \E j \in 1..Len(sigs) :
                    /\ sigs[j].approach = ret[i].approach
                    /\ ret[i].strength = AtRead(sigs[j])
        /\ \A j \in 1..Len(sigs) :
              AtRead(sigs[j]) > 100 =>
                 Cardinality({i \in 1..Len(ret) :
                                 ret[i].approach = sigs[j].approach}) = 1

\* a read that returns one Signal and leaves out a stored one at or below 1.0
C9_Witness ==
    /\ Read
    /\ Len(ret) = 1
    /\ \E j \in 1..Len(Stored(signals, call.task_id)) :
          LET sig == Stored(signals, call.task_id)[j] IN
          /\ sig.strength > 100
          /\ AtRead(sig) <= 100

\* C10: the list read_signals returns is in descending order of decayed
\* strength, and entries of equal strength are in the order in which their
\* Signals were created for the task.
C10_SortedStable ==
    Read =>
        \A i, k \in 1..Len(ret) :
            i < k =>
               /\ ret[i].strength >= ret[k].strength
               /\ ret[i].strength = ret[k].strength =>
                     Position(ret[i].approach) < Position(ret[k].approach)

\* a read of two Signals of equal decayed strength
C10_Witness ==
    /\ Read
    /\ Len(ret) = 2
    /\ ret[1].strength = ret[2].strength

\* the decayed strength of a record of the map the latest call began with
AtCall(sig) == sig.strength \div Pow(DecayBase, prev.at - sig.timestamp)

Swept == call.op = "decay"

\* C11: after decay_signals the signal map holds exactly the Signals whose
\* decayed strength at sweep time exceeded 1.0, each unchanged in every
\* field and in its order, and no task_id entry with zero Signals.
C11_SweepKeepsLive ==
    Swept =>
        /\ AllRecords(signals) =
              {r \in AllRecords(prev.signals) : AtCall(r) > 100}
        /\ \A i \in 1..Len(signals) : signals[i].sigs # <<>>
        /\ \A i \in 1..Len(signals) :
              \A j, k \in 1..Len(signals[i].sigs) :
                 j < k =>
                    \E m, n \in 1..Len(Stored(prev.signals, signals[i].task_id)) :
                       /\ m < n
                       /\ Stored(prev.signals, signals[i].task_id)[m]
                             = signals[i].sigs[j]
                       /\ Stored(prev.signals, signals[i].task_id)[n]
                             = signals[i].sigs[k]

\* a sweep that deleted one task's entry and kept another task's Signal
C11_Witness ==
    /\ Swept
    /\ Len(signals) = 1
    /\ Len(prev.signals) = 2
    /\ \E r \in AllRecords(prev.signals) : r.strength > 100 /\ AtCall(r) <= 100

\* C12: decay_signals called again with no elapsed time and no deposit in
\* between leaves the signal map and the persisted snapshot as the first
\* call left them.
C12_SweepIdempotent ==
    (Swept /\ call.again) =>
        /\ signals = prev.signals
        /\ disk = prev.disk

\* a second sweep over a map that holds an aged Signal
C12_Witness ==
    /\ Swept
    /\ call.again
    /\ \E r \in AllRecords(signals) : r.timestamp < prev.at

ReadOnly == call.op \in {"read", "strongest", "board"}

\* C13: read_signals, strongest_signal and get_board_state leave the signal
\* map as it was: no task entry added (also for an unknown task_id), no
\* Signal at or below 1.0 removed, no field changed, and the persisted file
\* not written.
C13_ReadsChangeNothing ==
    ReadOnly =>
        /\ signals = prev.signals
        /\ disk = prev.disk

\* a read of a task_id that has no entry, while the map holds a Signal that
\* has decayed to 1.0 or below
C13_Witness ==
    /\ call.op = "read"
    /\ ~HasKey(prev.signals, call.task_id)
    /\ \E r \in AllRecords(signals) : r.strength > 100 /\ AtCall(r) <= 100

Loaded == call.op = "load"

\* C15: saving the signal map and loading it into a new board gives the
\* same tasks with the same Signals in the same order, each with the same
\* task_id, approach, strength, timestamp (the absolute time, not reset on
\* load), deposited_by and success_metric.
C15_SaveLoadRoundTrip ==
    (Loaded /\ prev.disk = JsonFile(Serialized(prev.signals))) =>
        signals = prev.signals

\* a load, later than the deposits, of a snapshot of two tasks
C15_Witness ==
    /\ Loaded
    /\ prev.disk = JsonFile(Serialized(prev.signals))
    /\ Len(signals) = 2
    /\ \A r \in AllRecords(signals) : 0 < r.timestamp /\ r.timestamp < prev.at

C16_WriteFailureNotRaised ==
    \A t \in Threads :
        (pc[t] = "release" /\ frame[t].inner \in {"deposit", "decay"}
                           /\ lastwrite # "ok") =>
            frame[t].outcome = "return"

\* the records of a found document, and those Signal(**sig_data) accepts
FileRecords(file) ==
    UNION {{file.doc[i].value[j] : j \in 1..Len(file.doc[i].value)} :
              i \in 1..Len(file.doc)}

Malformed(file) == {o \in FileRecords(file) : ~Accepted(o)}

\* C17: when the persisted file holds one malformed record among
\* well-formed ones, loading skips only that record: every well-formed
\* record, also of the tasks after it in the file, is in the board.
C17_SkipsOnlyMalformed ==
    (Loaded /\ prev.disk.state = "json"
            /\ Cardinality(Malformed(prev.disk)) = 1) =>
        \A o \in FileRecords(prev.disk) \ Malformed(prev.disk) :
            \E r \in AllRecords(signals) :
                \A i \in 1..Len(o) : r[o[i].key] = o[i].value

BadBoot == prev.disk.state # "json"

\* C18: constructing a board over a missing or unparseable file does not
\* raise and gives an empty signal map, on which deposit_signal,
\* read_signals and decay_signals then work as on a new board.
C18_BadFileStartsEmpty ==
    /\ (Loaded /\ BadBoot) => (~call.raised /\ signals = <<>>)
    /\ (Deposited /\ BadBoot) =>
          /\ prev.signals = <<>>
          /\ signals =
                <<[task_id |-> call.task_id,
                   sigs |-> <<[task_id |-> call.task_id,
                               approach |-> call.approach,
                               strength |-> call.success_metric * 10,
                               timestamp |-> prev.at,
                               deposited_by |-> call.agent_id,
                               success_metric |-> call.success_metric]>>]>>
          /\ disk.state = "json"
          /\ LoadSignals(disk) = signals
    /\ (Read /\ BadBoot) => (ret = <<>> /\ signals = <<>>)
    /\ (Swept /\ BadBoot) =>
          (signals = <<>> /\ disk.state = "json" /\ disk.doc = <<>>)

\* a deposit on a board constructed over an unparseable file
C18_Witness ==
    /\ Deposited
    /\ prev.disk.state = "unparseable"
    /\ Len(signals) = 1

\* C19: at most one thread is inside the body of a board operation, and
\* it is the holder of the lock: no thread reads or writes the map while
\* a deposit is between its assignments.
C19_OneThreadInside ==
    \A t \in Threads :
        Inside(t) => /\ lock = t
                     /\ \A u \in Threads \ {t} : ~Inside(u)

\* a deposit has assigned the strength and not yet the timestamp, and the
\* other thread waits at the lock of read_signals
C19_Witness ==
    /\ pc["a1"] = "stamp"
    /\ pc["a2"] = "acquire"
    /\ frame["a2"].inner = "read"

\* C20: under fair scheduling every call ends: a thread that waits for the
\* lock or is in a caller between two board operations does not hold it,
\* a thread not in a call does not hold it, whichever way the operation was
\* left, and so every thread in a call is eventually out of it.
C20_EveryCallEnds ==
    /\ [](\A t \in Threads : pc[t] \in {"idle", "acquire", "caller"} => lock # t)
    /\ \A t \in Threads : (pc[t] # "idle") ~> (pc[t] = "idle")

\* a thread waits for the lock while the holder leaves deposit_signal with
\* the exception of a failed write
C20_Witness ==
    /\ pc["a2"] = "acquire"
    /\ pc["a1"] = "release"
    /\ frame["a1"].inner = "deposit"
    /\ frame["a1"].outcome = "raise"

\* C21: the calls take effect one after the other in the order they got
\* the lock: whenever the lock is free the map is the one the serial
\* execution of the calls gives, so it holds every deposit that has
\* returned, and the list a read returns is computed from that map.
C21_SerialOrder ==
    /\ lock = None => signals = serial
    /\ \A t \in Threads :
          (pc[t] = "release" /\ frame[t].inner = "read") =>
              /\ signals = serial
              /\ frame[t].result =
                    KeptResult(frame[t].op,
                        ReadSignals(serial, frame[t].task_id, AgentOf(t), now))

\* select_approach has read the list that holds the approach deposited by
\* the other thread, whose call has returned
C21_Witness ==
    /\ pc["a2"] = "release"
    /\ frame["a2"].inner = "read"
    /\ frame["a2"].result = <<"approach_A">>
    /\ pc["a1"] = "idle"
    /\ Len(serial) = 1 /\ Len(serial[1].sigs) = 1
    /\ serial[1].sigs[1].deposited_by = "a1"

Selected == call.op = "select"

\* the approaches select_approach can return on a list, over the draws
\* that the walk reaches
SelectOutcomes(d, task, entries) ==
    {SelectResult(d, task, entries, k.default, k.r) :
        k \in {p \in Picks(entries) : p.r <= TotalStrength(entries)}}

ListedApproaches(entries) == {entries[i].approach : i \in 1..Len(entries)}

\* C22: select_approach returns one of the three defaults, each of them
\* possible, exactly when read_signals for the task is empty, and otherwise
\* the approach of an entry of the list read_signals returns.
C22_DefaultIffEmpty ==
    Selected =>
        /\ call.entries = ReadSignals(prev.signals, call.task_id, call.agent_id, prev.at)
        /\ (call.entries = <<>>) <=> (call.default # None)
        /\ call.entries = <<>> =>
              /\ ret = call.default
              /\ ret \in {"approach_A", "approach_B", "approach_C"}
              /\ SelectOutcomes(prev.signals, call.task_id, call.entries)
                    = {"approach_A", "approach_B", "approach_C"}
        /\ call.entries # <<>> => ret \in ListedApproaches(call.entries)

\* a default is returned for a task whose only record is dead
C22_Witness ==
    /\ Selected
    /\ call.entries = <<>>
    /\ HasKey(prev.signals, call.task_id)
    /\ ret = "approach_C"

\* C23: on a non-empty list and a draw r within the total, select_approach
\* returns the approach at the smallest index whose cumulative strength is
\* at least r; every approach of the list can be returned and no other.
C23_WeightedWalk ==
    (Selected /\ call.entries # <<>> /\ call.draw <= TotalStrength(call.entries)) =>
        /\ \E i \in 1..Len(call.entries) :
              /\ Cumulative(call.entries, i) >= call.draw
              /\ \A j \in 1..(i - 1) : Cumulative(call.entries, j) < call.draw
              /\ ret = call.entries[i].approach
        /\ \A i \in 1..(Len(call.entries) - 1) :
              call.entries[i].strength >= call.entries[i + 1].strength
        /\ SelectOutcomes(prev.signals, call.task_id, call.entries)
              = ListedApproaches(call.entries)

\* the draw is exactly the first cumulative sum of a list of two, and the
\* first approach is returned
C23_Witness ==
    /\ Selected
    /\ Len(call.entries) = 2
    /\ call.draw = call.entries[1].strength
    /\ ret = call.entries[1].approach

\* C28: when the walk ends without a cumulative sum reaching the draw, the
\* approach returned is that of the last entry of the list.
C28_FallbackIsLast ==
    (Selected /\ call.entries # <<>> /\ WalkIndex(call.entries, call.draw) = 0) =>
        ret = call.entries[Len(call.entries)].approach

Executed == call.op = "execute"

\* C25: an execute_and_report call makes exactly one deposit, for its task,
\* the approach its own select_approach returned and its agent: that
\* pair's record is stamped with the time of the call and is created with
\* the agent as depositor if it was not there, every other record is as it
\* was, and get_board_state then counts at least one signal and one task.
C25_ExecuteDepositsOnce ==
    Executed =>
        LET selected == ret[1]
            m == ret[2]
            same(r) == r.task_id = call.task_id /\ r.approach = selected IN
        /\ selected = SelectResult(prev.signals, call.task_id, call.entries,
                                   call.default, call.draw)
        /\ HasRecord(signals, call.task_id, selected)
        /\ RecordOf(signals, call.task_id, selected).timestamp = prev.at
        /\ ~HasRecord(prev.signals, call.task_id, selected) =>
              /\ RecordOf(signals, call.task_id, selected).deposited_by = call.agent_id
              /\ RecordOf(signals, call.task_id, selected).strength = m * 10
              /\ RecordOf(signals, call.task_id, selected).success_metric = m
        /\ {r \in AllRecords(signals) : ~same(r)}
              = {r \in AllRecords(prev.signals) : ~same(r)}
        /\ Cardinality({r \in AllRecords(signals) : same(r)}) = 1
        /\ BoardState(signals, now).total_signals >= 1
        /\ BoardState(signals, now).total_tasks >= 1
        /\ disk = JsonFile(Serialized(signals))

\* an agent reported on the weaker of two listed approaches at a later time
C25_Witness ==
    /\ Executed
    /\ Len(call.entries) = 2
    /\ ret[1] = call.entries[2].approach
    /\ prev.at > 0

\* C24: the decayed strength of a stored Signal, as get_board_state shows
\* it, is at no later time greater than at an earlier time since its
\* timestamp.
C24_DecayNeverIncreases ==
    \A r \in AllRecords(signals) :
        \A t \in r.timestamp..now :
            BoardEntry(r, now).strength <= BoardEntry(r, t).strength

\* the record deposited on was dead when the deposit began
OnDead == Updated /\ 0 <= Current /\ Current <= 100 /\ call.success_metric >= 0

\* C27: a deposit on a pair whose stored record is dead gives what a
\* deposit on a pair without a record gives: strength success_metric * 100
\* and the depositing agent as deposited_by.
C27_DeadRecordIsReplaced ==
    OnDead =>
        /\ NewRecord.strength = call.success_metric * 10
        /\ NewRecord.deposited_by = call.agent_id

\* C29: the lists read_signals returns, and what strongest_signal returns,
\* are the same before and after a decay_signals call, for every task and
\* agent, at the time of the sweep.
C29_SweepInvisible ==
    Swept =>
        \A task \in Tasks :
            /\ \A agent \in Agents :
                  ReadSignals(signals, task, agent, prev.at)
                      = ReadSignals(prev.signals, task, agent, prev.at)
            /\ Strongest(ReadSignals(signals, task, "system", prev.at))
                  = Strongest(ReadSignals(prev.signals, task, "system", prev.at))

\* a sweep removed a dead record of a task and left a live one
C29_Witness ==
    /\ Swept
    /\ \E i \in 1..Len(signals) :
          /\ Len(signals[i].sigs) = 1
          /\ Len(Get(prev.signals, signals[i].task_id)) = 2

InUnit(m) == 0 <= m /\ m <= 1000

InBounds(d) ==
    \A r \in AllRecords(d) :
        /\ 0 <= r.strength /\ r.strength <= 10000
        /\ InUnit(r.success_metric)

\* C30: a board that started empty and gets only success_metric values in
\* [0, 1] holds only Signals with 0 <= strength <= 100 and
\* 0 <= success_metric <= 1: no call on a board within these bounds leaves
\* them, unless it is a deposit with a success_metric outside [0, 1]; and a
\* create with success_metric > 1 stores a strength above 100.
C30_BoundsUnderPrecondition ==
    /\ [][(/\ InBounds(signals)
           /\ call'.op = "deposit" => InUnit(call'.success_metric))
          => InBounds(signals')]_vars
    /\ []((Created /\ call.success_metric > 1000) => NewRecord.strength > 10000)

\* an amplifying deposit within [0, 1] reached the bound of 100
C30_Witness ==
    /\ Updated
    /\ InUnit(call.success_metric)
    /\ InBounds(prev.signals)
    /\ Current + call.success_metric * 15 > 10000
    /\ NewRecord.strength = 10000

\* the record of the workflow's execution in storage
Stored26 == executions[call.execution_id]

\* the checkpoint made last before the crash, as it was passed
LastMade == call.was.checkpoints[Len(call.was.checkpoints)]

Completing ==
    call.op = "complete" /\ call.after \in {"running", "resumed", "unresumed"}

\* C26 as stated: after start_execution, any checkpoints and optionally a
\* crash and resume_execution, which returns the latest checkpoint's phase,
\* state and steps, complete_execution leaves the status 'completed' and no
\* active execution, so that further calls raise ValueError.
C26_Original ==
    /\ call.op = "resume" =>
          /\ call.raised = None
          /\ ret.phase = LastMade.phase
          /\ ret.state = LastMade.state
          /\ ret.completed_steps = LastMade.completed_steps
          /\ ret.pending_steps = LastMade.pending_steps
    /\ Completing =>
          /\ call.raised = None
          /\ Stored26.status = "completed"
          /\ current_execution = None
    /\ (call.op = "status" /\ call.after \in {"ended", "abandoned"}) =>
          ret.status = "completed"
    /\ (call.op \in {"checkpoint", "complete"} /\ call.after = "ended") =>
          call.raised = "ValueError"

\* C26: for a non-empty execution_id.  resume_execution raises ValueError
\* when no checkpoint was made, and else returns the latest checkpoint's
\* phase and steps and its state as JSON gives it back.  complete_execution
\* after start or after a resume that returned leaves the status
\* 'completed', which get_execution_status reports, and no active
\* execution, so that a further checkpoint or complete_execution raises
\* ValueError.  After a resume that raised, and with the empty
\* execution_id, complete_execution raises ValueError and the status stays
\* 'running'.
C26_CompletesUnlessUnresumed ==
    /\ call.op = "resume" =>
          /\ (call.raised = None) <=> (call.was.checkpoints # <<>>)
          /\ call.raised = None =>
                /\ ret.phase = LastMade.phase
                /\ ret.state = JsonDict(LastMade.state)
                /\ ret.completed_steps = LastMade.completed_steps
                /\ ret.pending_steps = LastMade.pending_steps
                /\ current_execution = call.execution_id
                /\ call.execution_id # ""
    /\ (Completing /\ call.after # "unresumed" /\ call.execution_id # "") =>
          /\ call.raised = None
          /\ Stored26.status = "completed"
          /\ current_execution = None
          /\ driver.at = "ended"
    /\ (Completing /\ (call.after = "unresumed" \/ call.execution_id = "")) =>
          /\ call.raised = "ValueError"
          /\ Stored26.status = "running"
          /\ driver.at = "abandoned"
    /\ (call.op = "status" /\ call.after = "ended") => ret.status = "completed"
    /\ (call.op = "status" /\ call.after = "abandoned") => ret.status = "running"
    /\ (call.op \in {"checkpoint", "complete"} /\ call.after = "ended") =>
          call.raised = "ValueError"

\* an execution with two checkpoints was resumed after the crash and then
\* completed
C26_Witness ==
    /\ call.op = "complete"
    /\ call.after = "resumed"
    /\ call.raised = None
    /\ Len(Stored26.checkpoints) = 2
    /\ Stored26.status = "completed"

====
